---- MODULE Spec2Model ----
(***************************************************************************)
(* Pet monitoring system: pan/tilt camera tracker (camera_tracker.py) and  *)
(* the monitoring cycle that drives it (main.py).                          *)
(*                                                                         *)
(* Angles are held in units of 1/200 degree and pixel errors in half       *)
(* pixels, so that kp * error (kp = 0.02, error a multiple of 0.5) is an   *)
(* exact integer; floating-point rounding is not modelled.                 *)
(***************************************************************************)
EXTENDS Integers, Sequences, FiniteSets, TLC

VARIABLES
    pc,          \* control location of the orchestrator / tracker
    cap,         \* self.cap: "None", "opened" (isOpened()), "unopened"
    pan_angle,   \* self.pan_angle
    tilt_angle,  \* self.tilt_angle
    pan_servo,   \* angle last written to self.pan_servo
    tilt_servo,  \* angle last written to self.tilt_servo
    row,         \* index of the tilt loop of the scan (1-based)
    col,         \* index of the pan loop of the scan (1-based)
    ticks,       \* iterations of the tracking loop started so far
    i,           \* loop variable of capture_images
    file_paths,  \* file_paths of capture_images: frame numbers i+1, in order
    written,     \* frame numbers whose JPEG file exists on disk
    ret,         \* value returned by the last scan_and_track
    opened,      \* the current call's _open_camera returned True
    releases,    \* cap.release() calls made during the current call
    visited,     \* scan cells visited in this call, in order
    hitAt,       \* scan cells at which the detector reported a pet
    tracked,     \* the tracking phase was entered in this cycle
    step,        \* what the latest tracking tick did to the servos, or NoStep
    readFails,   \* failed frame reads of the current capture_images
    lastRead,    \* outcome of cap.read() in the latest loop iteration
    captureCalls,\* capture_images calls in this cycle
    uploadCalls, \* upload_files calls in this cycle
    success,     \* value returned by the last upload_files
    outcome,     \* how the last monitoring cycle ended
    resetFailed, \* a reset_position of this cycle raised
    uploadArg,   \* the file_paths argument of the cycle's upload_files call
    scanFailed,  \* a frame read failed in the scan phase in progress
    run_pc,      \* position in run(): "test", "first", "loop", "exited"
    selftest,    \* what test_system met and returned
    interrupted, \* a KeyboardInterrupt was delivered
    cleaned,     \* PetMonitoringSystem.cleanup has run
    frame_shape, \* (height, width) of the frame being resized
    long_edge,   \* long_edge argument of capture_images
    new_size,    \* (new_width, new_height) passed to cv2.resize
    now,         \* time.time(), in time units
    start_time,  \* start_time of the tracking phase
    loop_start,  \* loop_start of the current tracking tick
    prev_start,  \* loop_start of the tick before it, or -1
    detections,  \* the detector's boxes for one frame, in order
    best_box     \* what _detect_pet returned for them

vars == <<pc, cap, pan_angle, tilt_angle, pan_servo, tilt_servo, row, col,
          ticks, i, file_paths, written, ret, opened, releases, visited,
          hitAt, tracked, step, readFails, lastRead, captureCalls,
          uploadCalls, success, outcome, resetFailed, uploadArg, scanFailed,
          run_pc, selftest, interrupted, cleaned, frame_shape, long_edge,
          new_size, now, start_time, loop_start, prev_start, detections,
          best_box>>

----------------------------------------------------------------------------
(* Configuration *)

kp_pan == 2            \* 0.02, in hundredths
kp_tilt == 2           \* 0.02, in hundredths
deadband == 10
frame_width == 640
frame_height == 480
scan_steps_pan == 9
scan_steps_tilt == 5
capture_count == 3
image_long_edge == 800
tracking_duration == 8     \* seconds
tracking_fps == 10

\* Bound on the tracking-loop iterations explored (the code bounds them by
\* wall-clock time).
MaxTicks == 2

----------------------------------------------------------------------------
(* Arithmetic helpers *)

Max(a, b) == IF a >= b THEN a ELSE b
Min(a, b) == IF a <= b THEN a ELSE b
Abs(x) == IF x < 0 THEN -x ELSE x

\* d degrees in model units
Deg(d) == d * 200

\* np.linspace(start, stop, num)
linspace(start, stop, num) ==
    [k \in 1..num |->
        IF num = 1 THEN start
        ELSE start + ((k - 1) * (stop - start)) \div (num - 1)]

tilt_grid == linspace(Deg(30), Deg(150), scan_steps_tilt)
pan_grid == linspace(Deg(0), Deg(180), scan_steps_pan)

None == <<>>

NoStep == [kind |-> "none", ex2 |-> 0, ey2 |-> 0, wrote |-> {}]

----------------------------------------------------------------------------
(* Motion controller: CameraTracker's servo state *)

Ctrl == [pan_angle |-> pan_angle, tilt_angle |-> tilt_angle,
         pan_servo |-> pan_servo, tilt_servo |-> tilt_servo]

SetCtrl(c) ==
    /\ pan_angle' = c.pan_angle
    /\ tilt_angle' = c.tilt_angle
    /\ pan_servo' = c.pan_servo
    /\ tilt_servo' = c.tilt_servo

ctrlVars == <<pan_angle, tilt_angle, pan_servo, tilt_servo>>

\* Which servo write of an operation raises, if any.
ServoFaults == {"none", "pan", "tilt"}

\* The update without the clamp
ClampAngle_unclamped(a) == a

\* max(0, min(180, a))
ClampAngle(a) == Max(Deg(0), Min(Deg(180), a))

\* The deadband test with >= in place of >
BeyondDeadband_inclusive(e2) == Abs(e2) >= 2 * deadband

\* abs(error) > self.deadband, for an error given in half pixels
BeyondDeadband(e2) == Abs(e2) > 2 * deadband

\* The pan correction without the sign inversion
DeltaPan_unsigned(ex2) == kp_pan * ex2

\* delta_pan = -self.kp_pan * error_x
DeltaPan(ex2) == -(kp_pan * ex2)

\* delta_tilt = self.kp_tilt * error_y
DeltaTilt(ey2) == kp_tilt * ey2

\* _update_servo_angles(error_x, error_y) applied to controller state c.
\* fault names the servo write that raises; wrote is the set of servo
\* channels written, raised tells whether the call raised.
update_servo_angles(c, ex2, ey2, fault) ==
    LET movePan == BeyondDeadband(ex2)
        panRaise == movePan /\ fault = "pan"
        moveTilt == ~panRaise /\ BeyondDeadband(ey2)
        tiltRaise == moveTilt /\ fault = "tilt"
        newPan == IF movePan THEN ClampAngle(c.pan_angle + DeltaPan(ex2))
                  ELSE c.pan_angle
        newTilt == IF moveTilt THEN ClampAngle(c.tilt_angle + DeltaTilt(ey2))
                   ELSE c.tilt_angle
    IN  [pan_angle |-> newPan,
         tilt_angle |-> newTilt,
         pan_servo |-> IF movePan /\ ~panRaise THEN newPan ELSE c.pan_servo,
         tilt_servo |-> IF moveTilt /\ ~tiltRaise THEN newTilt
                        ELSE c.tilt_servo,
         wrote |-> (IF movePan /\ ~panRaise THEN {"pan"} ELSE {})
                   \cup (IF moveTilt /\ ~tiltRaise THEN {"tilt"} ELSE {}),
         raised |-> panRaise \/ tiltRaise]

\* A reset that forgets the tilt axis
reset_position_pan_only(c, fault) ==
    [pan_angle |-> Deg(90),
     tilt_angle |-> c.tilt_angle,
     pan_servo |-> IF fault = "pan" THEN c.pan_servo ELSE Deg(90),
     tilt_servo |-> c.tilt_servo,
     raised |-> fault # "none"]

\* reset_position() applied to controller state c.
reset_position(c, fault) ==
    [pan_angle |-> Deg(90),
     tilt_angle |-> Deg(90),
     pan_servo |-> IF fault = "pan" THEN c.pan_servo ELSE Deg(90),
     tilt_servo |-> IF fault = "none" THEN Deg(90) ELSE c.tilt_servo,
     raised |-> fault # "none"]

----------------------------------------------------------------------------
(* Camera device handle *)

\* A close that leaves the handle as it is
close_camera_leak(c) == c

\* _close_camera(): the handle afterwards
close_camera(c) == IF c = "opened" THEN "None" ELSE c

\* _close_camera(): number of cap.release() calls it makes
release_calls(c) == IF c = "opened" THEN 1 ELSE 0

\* _open_camera(): the handle afterwards; ok is whether the device opens
open_camera(c, ok) ==
    IF c = "opened" THEN "opened"
    ELSE IF ok THEN "opened" ELSE "unopened"

\* The finally block of scan_and_track / capture_images: close, then leave
\* the call at control location loc.
Finally(loc) ==
    /\ cap' = close_camera(cap)
    /\ releases' = releases + release_calls(cap)
    /\ pc' = loc

----------------------------------------------------------------------------
(* Detector and frame geometry *)

\* Bounding boxes (x1, y1, x2, y2) that _detect_pet may return.
Boxes == {
    <<0, 0, 20, 20>>,           \* far left, far up
    <<620, 460, 640, 480>>,     \* far right, far down
    <<310, 230, 341, 250>>,     \* within the deadband on both axes
    <<320, 0, 340, 21>>,        \* error_x = deadband exactly, far up
    <<620, 231, 640, 250>>      \* far right, within the deadband vertically
}

\* _get_box_center(box)
get_box_center(box) == <<(box[1] + box[3]) \div 2, (box[2] + box[4]) \div 2>>

\* error_x = cx - self.frame_width / 2, in half pixels
ErrorX(box) == 2 * get_box_center(box)[1] - frame_width

\* error_y = cy - self.frame_height / 2, in half pixels
ErrorY(box) == 2 * get_box_center(box)[2] - frame_height

----------------------------------------------------------------------------
(* Variables of the process, the resize and the clock, and their values
   where they play no part *)

runVars == <<run_pc, selftest, interrupted, cleaned>>
resizeVars == <<frame_shape, long_edge, new_size>>
clockVars == <<now, start_time, loop_start, prev_start>>
detectVars == <<detections, best_box>>
restVars == <<runVars, resizeVars, clockVars, detectVars>>

\* test_system has not run
NotTested ==
    [result |-> "pending", slack |-> TRUE, camera |-> "untested",
     servo |-> "none"]

\* No frame is being resized; long_edge is the configured value.
ResizeIdle ==
    /\ frame_shape = None
    /\ long_edge = image_long_edge
    /\ new_size = None

\* No frame is with the detector.
DetectIdle ==
    /\ detections = <<>>
    /\ best_box = None

\* The clock is not observed.
ClockIdle ==
    /\ now = 0
    /\ start_time = 0
    /\ loop_start = 0
    /\ prev_start = -1

----------------------------------------------------------------------------
(* Initial state: the self-test has passed and the scheduler loop of run()
   is entered with the camera closed and the controller centred; no cycle
   observed yet *)

Init ==
    /\ pc = "idle"
    /\ cap = "None"
    /\ pan_angle = Deg(90)
    /\ tilt_angle = Deg(90)
    /\ pan_servo = Deg(90)
    /\ tilt_servo = Deg(90)
    /\ row = 1
    /\ col = 1
    /\ ticks = 0
    /\ i = 0
    /\ file_paths = <<>>
    /\ written = {}
    /\ ret = FALSE
    /\ opened = FALSE
    /\ releases = 0
    /\ visited = <<>>
    /\ hitAt = {}
    /\ tracked = FALSE
    /\ step = NoStep
    /\ readFails = 0
    /\ lastRead = "none"
    /\ captureCalls = 0
    /\ uploadCalls = 0
    /\ success = FALSE
    /\ outcome = "none"
    /\ resetFailed = FALSE
    /\ uploadArg = None
    /\ scanFailed = FALSE
    /\ run_pc = "loop"
    /\ selftest = [NotTested EXCEPT !.result = "passed", !.camera = "ok"]
    /\ interrupted = FALSE
    /\ cleaned = FALSE
    /\ ResizeIdle
    /\ ClockIdle
    /\ DetectIdle

scanVars == <<row, col, visited, hitAt, scanFailed>>
captureVars == <<i, file_paths, written, readFails>>
cycleVars == <<captureCalls, uploadCalls, success, outcome, resetFailed,
               uploadArg>>

----------------------------------------------------------------------------
(* CameraTracker.scan_and_track, called first by run_monitoring_cycle *)

\* run() calls run_monitoring_cycle: once right after the self-test, then
\* from the scheduler loop.
CycleDue == run_pc = "loop" \/ (run_pc = "first" /\ outcome = "none")

\* run_monitoring_cycle starts and calls scan_and_track, which opens the
\* camera or raises RuntimeError.
ScanAndTrackOpen ==
    /\ pc = "idle"
    /\ CycleDue
    /\ \E ok \in BOOLEAN :
        /\ cap' = open_camera(cap, ok)
        /\ opened' = (cap' = "opened")
        /\ pc' = IF cap' = "opened" THEN "scan_row" ELSE "sat_raised"
    /\ releases' = 0
    /\ row' = 1
    /\ col' = 1
    /\ visited' = <<>>
    /\ hitAt' = {}
    /\ tracked' = FALSE
    /\ step' = NoStep
    /\ ticks' = 0
    /\ ret' = FALSE
    /\ i' = 0
    /\ file_paths' = <<>>
    /\ written' = {}
    /\ readFails' = 0
    /\ lastRead' = "none"
    /\ captureCalls' = 0
    /\ uploadCalls' = 0
    /\ success' = FALSE
    /\ outcome' = "running"
    /\ resetFailed' = FALSE
    /\ uploadArg' = None
    /\ scanFailed' = FALSE
    /\ UNCHANGED ctrlVars
    /\ UNCHANGED restVars

\* One iteration of the tilt loop up to the start of its pan loop: move the
\* tilt servo to the row's angle.
ScanRow ==
    /\ pc = "scan_row"
    /\ row <= scan_steps_tilt
    /\ tilt_angle' = tilt_grid[row]
    /\ \E raise \in BOOLEAN :
        IF raise
        THEN /\ tilt_servo' = tilt_servo
             /\ Finally("sat_raised")
        ELSE /\ tilt_servo' = tilt_grid[row]
             /\ pc' = "scan_cell"
             /\ UNCHANGED <<cap, releases>>
    /\ col' = 1
    /\ UNCHANGED <<pan_angle, pan_servo, row, visited, hitAt, scanFailed,
                   ticks, ret, opened, tracked, step, captureVars, lastRead,
                   cycleVars>>
    /\ UNCHANGED restVars

\* A pan loop whose end does not advance the tilt loop
NextCell_same_row(r, c) ==
    IF c < scan_steps_pan THEN [pc |-> "scan_cell", row |-> r, col |-> c + 1]
    ELSE [pc |-> "scan_row", row |-> r, col |-> 1]

\* The loop position after the pan-loop body at (r, c) ended without a
\* detection: the next column, or the next row.
NextCell(r, c) ==
    IF c < scan_steps_pan THEN [pc |-> "scan_cell", row |-> r, col |-> c + 1]
    ELSE [pc |-> "scan_row", row |-> r + 1, col |-> 1]

\* A failed read that breaks out of the pan loop
AfterReadFail_break(r, c) == [pc |-> "scan_row", row |-> r + 1, col |-> 1]

\* The loop position after "if not ret: continue" at (r, c)
AfterReadFail(r, c) == NextCell(r, c)

\* A scan that never takes the break
Detected_never(box) == FALSE

\* box is not None
Detected(box) == box # None

\* One iteration of the pan loop: move the pan servo, read a frame, run the
\* detector, and break out of both loops on a detection.
ScanCell ==
    /\ pc = "scan_cell"
    /\ pan_angle' = pan_grid[col]
    /\ visited' = Append(visited, <<row, col>>)
    /\ \E o \in {"servo_raise", "read_fail", "detect_raise", "detect"} :
       \E box \in Boxes \cup {None} :
        /\ (o # "detect") => (box = None)
        /\ pan_servo' = IF o = "servo_raise" THEN pan_servo ELSE pan_grid[col]
        /\ hitAt' = IF o = "detect" /\ box # None
                    THEN hitAt \cup {<<row, col>>} ELSE hitAt
        /\ lastRead' = IF o = "servo_raise" THEN "none"
                       ELSE IF o = "read_fail" THEN "fail" ELSE "ok"
        /\ scanFailed' = (scanFailed \/ o = "read_fail")
        /\ IF o \in {"servo_raise", "detect_raise"}
           THEN /\ Finally("sat_raised")
                /\ UNCHANGED <<row, col, tracked>>
           ELSE IF o = "detect" /\ Detected(box)
           THEN /\ pc' = "track"
                /\ tracked' = TRUE
                /\ UNCHANGED <<row, col, cap, releases>>
           ELSE LET nxt == IF o = "read_fail" THEN AfterReadFail(row, col)
                           ELSE NextCell(row, col)
                IN  /\ pc' = nxt.pc
                    /\ row' = nxt.row
                    /\ col' = nxt.col
                    /\ UNCHANGED <<tracked, cap, releases>>
    /\ UNCHANGED <<tilt_angle, tilt_servo, ticks, ret, opened, step,
                   captureVars, cycleVars>>
    /\ UNCHANGED restVars

\* The tilt loop is exhausted without a detection: return False.
ScanExhausted ==
    /\ pc = "scan_row"
    /\ row > scan_steps_tilt
    /\ ret' = FALSE
    /\ Finally("sat_returned")
    /\ UNCHANGED <<ctrlVars, scanVars, ticks, opened, tracked, step,
                   captureVars, lastRead, cycleVars>>
    /\ UNCHANGED restVars

\* A tracking phase that reports a failed frame read as "not tracked"
TrackingReturn_partial(readFailed) == ~readFailed

\* The value scan_and_track returns after its tracking loop, left by a
\* failed frame read (break) or by the elapsed duration: "return True".
TrackingReturn(readFailed) == TRUE

\* A tick without a detection that re-centres the camera to search
hold_position_recentre(c) ==
    [pan_angle |-> Deg(90), tilt_angle |-> Deg(90),
     pan_servo |-> Deg(90), tilt_servo |-> Deg(90),
     wrote |-> {"pan", "tilt"}, raised |-> FALSE]

\* The controller after a tick whose box is None: "if box is not None" is
\* not taken, nothing is assigned and no servo is written.
hold_position(c) ==
    [pan_angle |-> c.pan_angle, tilt_angle |-> c.tilt_angle,
     pan_servo |-> c.pan_servo, tilt_servo |-> c.tilt_servo,
     wrote |-> {}, raised |-> FALSE]

\* One iteration of the tracking loop.
TrackTick ==
    /\ pc = "track"
    /\ ticks < MaxTicks
    /\ ticks' = ticks + 1
    /\ \E o \in {"read_fail", "detect_raise", "detect"} :
       \E box \in Boxes \cup {None} :
       \E fault \in ServoFaults :
        /\ (o # "detect" \/ box = None) => (box = None /\ fault = "none")
        /\ lastRead' = IF o = "read_fail" THEN "fail" ELSE "ok"
        /\ LET u == update_servo_angles(Ctrl, ErrorX(box), ErrorY(box), fault)
           IN  CASE o = "read_fail" ->
                    /\ ret' = TrackingReturn(TRUE)
                    /\ Finally("sat_returned")
                    /\ step' = NoStep
                    /\ UNCHANGED ctrlVars
                 [] o = "detect_raise" ->
                    /\ Finally("sat_raised")
                    /\ step' = NoStep
                    /\ UNCHANGED <<ctrlVars, ret>>
                 [] o = "detect" /\ box = None ->
                    /\ SetCtrl(hold_position(Ctrl))
                    /\ step' = [kind |-> "hold", ex2 |-> 0, ey2 |-> 0,
                                wrote |-> hold_position(Ctrl).wrote]
                    /\ UNCHANGED <<ret, pc, cap, releases>>
                 [] o = "detect" /\ box # None ->
                    /\ (fault # "none") => u.raised
                    /\ SetCtrl(u)
                    /\ step' = [kind |-> "step", ex2 |-> ErrorX(box),
                                ey2 |-> ErrorY(box), wrote |-> u.wrote]
                    /\ IF u.raised
                       THEN Finally("sat_raised") /\ UNCHANGED ret
                       ELSE UNCHANGED <<ret, pc, cap, releases>>
    /\ scanFailed' = FALSE
    /\ UNCHANGED <<row, col, visited, hitAt, opened, tracked, captureVars,
                   cycleVars>>
    /\ UNCHANGED restVars

\* The tracking duration has elapsed: return True.
TrackTimeUp ==
    /\ pc = "track"
    /\ ret' = TrackingReturn(FALSE)
    /\ step' = NoStep
    /\ Finally("sat_returned")
    /\ scanFailed' = FALSE
    /\ UNCHANGED <<ctrlVars, row, col, visited, hitAt, ticks, opened, tracked,
                   captureVars, lastRead, cycleVars>>
    /\ UNCHANGED restVars

----------------------------------------------------------------------------
(* CameraTracker.capture_images *)

\* A cycle that never takes the early return
NoPetDetected_never(r) == FALSE

\* run_monitoring_cycle takes "if not pet_detected"
NoPetDetected(r) == ~r

\* A capture that re-centres the camera before taking the stills
capture_position_recentre(c) ==
    [pan_angle |-> Deg(90), tilt_angle |-> Deg(90),
     pan_servo |-> Deg(90), tilt_servo |-> Deg(90)]

\* The controller as capture_images finds and leaves it: between the
\* return of scan_and_track and the capture loop no angle is assigned and
\* no servo is written.
capture_position(c) ==
    [pan_angle |-> c.pan_angle, tilt_angle |-> c.tilt_angle,
     pan_servo |-> c.pan_servo, tilt_servo |-> c.tilt_servo]

\* capture_images up to the start of its loop: open the camera (or raise
\* RuntimeError), create the directory, initialise file_paths.
CaptureOpen ==
    /\ pc = "sat_returned"
    /\ ~NoPetDetected(ret)
    /\ captureCalls' = captureCalls + 1
    /\ \E ok \in BOOLEAN, mkdir_raise \in BOOLEAN :
        /\ cap' = open_camera(cap, ok)
        /\ opened' = (cap' = "opened")
        /\ (cap' # "opened") => ~mkdir_raise
        /\ pc' = IF cap' # "opened" \/ mkdir_raise THEN "cap_raised"
                 ELSE "cap_loop"
    /\ releases' = 0
    /\ i' = 0
    /\ file_paths' = <<>>
    /\ readFails' = 0
    /\ lastRead' = "none"
    /\ step' = NoStep
    /\ SetCtrl(capture_position(Ctrl))
    /\ UNCHANGED <<scanVars, ticks, ret, tracked, written,
                   uploadCalls, success, outcome, resetFailed, uploadArg>>
    /\ UNCHANGED restVars

\* The path inserted at the front of the list
AppendPath_front(paths, n) == <<n>> \o paths

\* file_paths.append(filepath), the path standing for frame number n
AppendPath(paths, n) == Append(paths, n)

\* The files on disk after cv2.imwrite for frame number n returned ok
WriteFile(files, n, ok) == IF ok THEN files \cup {n} ELSE files

\* One iteration of the capture loop: read a frame, resize it, write the
\* JPEG, append the path.
CaptureFrame ==
    /\ pc = "cap_loop"
    /\ i < capture_count
    /\ \E o \in {"read_fail", "resize_raise", "write_raise", "write_false",
                 "write_ok"} :
        /\ lastRead' = IF o = "read_fail" THEN "fail" ELSE "ok"
        /\ readFails' = IF o = "read_fail" THEN readFails + 1 ELSE readFails
        /\ IF o \in {"resize_raise", "write_raise"}
           THEN /\ Finally("cap_raised")
                /\ UNCHANGED <<i, file_paths, written>>
           ELSE /\ i' = i + 1
                /\ file_paths' = IF o = "read_fail" THEN file_paths
                                 ELSE AppendPath(file_paths, i + 1)
                /\ written' = IF o = "read_fail" THEN written
                              ELSE WriteFile(written, i + 1, o = "write_ok")
                /\ UNCHANGED <<pc, cap, releases>>
    /\ UNCHANGED <<ctrlVars, scanVars, ticks, ret, opened, tracked, step,
                   cycleVars>>
    /\ UNCHANGED restVars

\* The capture loop is finished: close the camera and return file_paths.
CaptureReturn ==
    /\ pc = "cap_loop"
    /\ i >= capture_count
    /\ Finally("cap_returned")
    /\ UNCHANGED <<ctrlVars, scanVars, ticks, ret, opened, tracked, step,
                   captureVars, lastRead, cycleVars>>
    /\ UNCHANGED restVars

----------------------------------------------------------------------------
(* SlackUploader.upload_files *)

\* The value upload_files returns for paths, given the files on disk and
\* whether the Slack API call succeeds.
upload_files(paths, files, api_ok) ==
    IF paths = <<>> THEN FALSE
    ELSE IF \E k \in 1..Len(paths) : paths[k] \notin files THEN FALSE
    ELSE api_ok

----------------------------------------------------------------------------
(* PetMonitoringSystem.run_monitoring_cycle, after scan_and_track *)

\* No pet detected: reset the position and return.
CycleNoPet ==
    /\ pc = "sat_returned"
    /\ NoPetDetected(ret)
    /\ \E fault \in ServoFaults :
        LET c == reset_position(Ctrl, fault)
        IN  /\ SetCtrl(c)
            /\ resetFailed' = c.raised
            /\ pc' = IF c.raised THEN "reset_raised" ELSE "idle"
            /\ outcome' = IF c.raised THEN outcome ELSE "no_pet"
    /\ UNCHANGED <<cap, scanVars, ticks, ret, opened, releases, tracked,
                   step, captureVars, lastRead, captureCalls, uploadCalls,
                   success, uploadArg>>
    /\ UNCHANGED restVars

\* A cycle that uploads whatever capture_images returned
HasImages_always(paths) == TRUE

\* "if not file_paths" is not taken
HasImages(paths) == paths # <<>>

\* capture_images returned an empty list: return.
CycleNoImages ==
    /\ pc = "cap_returned"
    /\ ~HasImages(file_paths)
    /\ pc' = "idle"
    /\ outcome' = "no_images"
    /\ UNCHANGED <<cap, ctrlVars, scanVars, ticks, ret, opened, releases,
                   tracked, step, captureVars, lastRead, captureCalls,
                   uploadCalls, success, resetFailed, uploadArg>>
    /\ UNCHANGED restVars

\* Upload the captured files.
CycleUpload ==
    /\ pc = "cap_returned"
    /\ HasImages(file_paths)
    /\ uploadCalls' = uploadCalls + 1
    /\ uploadArg' = file_paths
    /\ \E api_ok \in BOOLEAN :
        success' = upload_files(file_paths, written, api_ok)
    /\ pc' = "uploaded"
    /\ UNCHANGED <<cap, ctrlVars, scanVars, ticks, ret, opened, releases,
                   tracked, step, captureVars, lastRead, captureCalls,
                   outcome, resetFailed>>
    /\ UNCHANGED restVars

\* After the upload: reset the position, the cycle is complete.
CycleComplete ==
    /\ pc = "uploaded"
    /\ \E fault \in ServoFaults :
        LET c == reset_position(Ctrl, fault)
        IN  /\ SetCtrl(c)
            /\ resetFailed' = c.raised
            /\ pc' = IF c.raised THEN "reset_raised" ELSE "idle"
            /\ outcome' = IF c.raised THEN outcome
                          ELSE IF success THEN "upload_ok"
                          ELSE "upload_failed"
    /\ UNCHANGED <<cap, scanVars, ticks, ret, opened, releases, tracked,
                   step, captureVars, lastRead, captureCalls, uploadCalls,
                   success, uploadArg>>
    /\ UNCHANGED restVars

\* An except clause that lets a failure of its reset_position escape
ExceptExit_reraise(raised) == IF raised THEN "cycle_raised" ELSE "idle"

\* Where run_monitoring_cycle is after its except clause, whose
\* reset_position raised or not: the inner try logs and swallows, the cycle
\* returns.
ExceptExit(raised) == "idle"

\* The except clause: log, try to reset the position, swallow a failure.
CycleExcept ==
    /\ pc \in {"sat_raised", "cap_raised", "reset_raised"}
    /\ \E fault \in ServoFaults :
        LET c == reset_position(Ctrl, fault)
        IN  /\ SetCtrl(c)
            /\ resetFailed' = c.raised
            /\ pc' = ExceptExit(c.raised)
    /\ outcome' = "exception"
    /\ UNCHANGED <<cap, scanVars, ticks, ret, opened, releases, tracked,
                   step, captureVars, lastRead, captureCalls, uploadCalls,
                   success, uploadArg>>
    /\ UNCHANGED restVars

----------------------------------------------------------------------------

Next ==
    \/ ScanAndTrackOpen
    \/ ScanRow
    \/ ScanCell
    \/ ScanExhausted
    \/ TrackTick
    \/ TrackTimeUp
    \/ CaptureOpen
    \/ CaptureFrame
    \/ CaptureReturn
    \/ CycleNoPet
    \/ CycleNoImages
    \/ CycleUpload
    \/ CycleComplete
    \/ CycleExcept

Spec == Init /\ [][Next]_vars

----------------------------------------------------------------------------
(* The proportional step repeated under a constant error *)

\* Constant errors (half pixels) tried: far, just beyond the deadband, and
\* on the deadband's edge.
StepErrors == {-640, -22, 20, 22, 640}

\* The controller is at a corner of the scan grid or at the centre, and an
\* error is fixed.
InitStep ==
    /\ pc = "ctrl"
    /\ pan_angle \in {pan_grid[1], Deg(90), pan_grid[scan_steps_pan]}
    /\ tilt_angle \in {tilt_grid[1], Deg(90), tilt_grid[scan_steps_tilt]}
    /\ pan_servo = pan_angle
    /\ tilt_servo = tilt_angle
    /\ \E ex2 \in StepErrors, ey2 \in StepErrors :
        step = [kind |-> "const", ex2 |-> ex2, ey2 |-> ey2, wrote |-> {}]
    /\ cap = "None"
    /\ row = 1
    /\ col = 1
    /\ ticks = 0
    /\ i = 0
    /\ file_paths = <<>>
    /\ written = {}
    /\ ret = FALSE
    /\ opened = FALSE
    /\ releases = 0
    /\ visited = <<>>
    /\ hitAt = {}
    /\ tracked = FALSE
    /\ readFails = 0
    /\ lastRead = "none"
    /\ captureCalls = 0
    /\ uploadCalls = 0
    /\ success = FALSE
    /\ outcome = "none"
    /\ resetFailed = FALSE
    /\ uploadArg = None
    /\ scanFailed = FALSE
    /\ run_pc = "loop"
    /\ selftest = [NotTested EXCEPT !.result = "passed", !.camera = "ok"]
    /\ interrupted = FALSE
    /\ cleaned = FALSE
    /\ ResizeIdle
    /\ ClockIdle
    /\ DetectIdle

\* _update_servo_angles with the fixed error, no servo fault
StepConst ==
    /\ pc = "ctrl"
    /\ LET u == update_servo_angles(Ctrl, step.ex2, step.ey2, "none")
       IN  /\ SetCtrl(u)
           /\ step' = [step EXCEPT !.wrote = u.wrote]
    /\ UNCHANGED <<pc, cap, scanVars, ticks, ret, opened, releases, tracked,
                   captureVars, lastRead, cycleVars>>
    /\ UNCHANGED restVars

NextStep == StepConst

SpecStep == InitStep /\ [][NextStep]_vars /\ WF_vars(StepConst)

----------------------------------------------------------------------------
(* PetMonitoringSystem.run: self-test, first cycle, scheduler loop, and a
   KeyboardInterrupt delivered to the process *)

\* What the camera part of test_system can meet
CameraTests == {"ok", "open_fail", "read_fail", "read_raise"}

\* A self-test that does not look at the frame read's result
test_system_unchecked_read(c, camera, slack_ok, cam, fault) ==
    LET camNoRaise == cam # "read_raise"
        r == reset_position(c, fault)
    IN  [passed |-> slack_ok /\ camNoRaise /\ ~r.raised,
         cap |-> IF ~slack_ok THEN camera
                 ELSE IF cam = "open_fail" THEN "unopened"
                 ELSE IF cam = "read_raise" THEN "opened"
                 ELSE "None",
         ctrl |-> IF slack_ok /\ camNoRaise THEN r ELSE c]

\* test_system() applied to controller state c and camera handle camera:
\* slack_ok is test_connection's result, cam what the camera test meets,
\* fault the servo write of reset_position that raises. The tests run in
\* this order and the first failure returns False.
test_system(c, camera, slack_ok, cam, fault) ==
    LET camOk == cam = "ok"
        r == reset_position(c, fault)
    IN  [passed |-> slack_ok /\ camOk /\ ~r.raised,
         cap |-> IF ~slack_ok THEN camera
                 ELSE IF cam = "open_fail" THEN "unopened"
                 ELSE IF cam = "read_raise" THEN "opened"
                 ELSE "None",
         ctrl |-> IF slack_ok /\ camOk THEN r ELSE c]

\* run() up to the first cycle: test_system, sys.exit(1) if it fails.
TestSystem ==
    /\ pc = "startup"
    /\ run_pc = "test"
    /\ \E slack_ok \in BOOLEAN :
       \E cam \in CameraTests \cup {"untested"} :
       \E fault \in ServoFaults :
        /\ (cam = "untested") <=> ~slack_ok
        /\ (cam # "ok") => (fault = "none")
        /\ LET t == test_system(Ctrl, cap, slack_ok, cam, fault)
           IN  /\ selftest' = [result |-> IF t.passed THEN "passed"
                                          ELSE "failed",
                               slack |-> slack_ok, camera |-> cam,
                               servo |-> fault]
               /\ cap' = t.cap
               /\ SetCtrl(t.ctrl)
               /\ pc' = IF t.passed THEN "idle" ELSE "exited"
               /\ run_pc' = IF t.passed THEN "first" ELSE "exited"
    /\ UNCHANGED <<scanVars, ticks, ret, opened, releases, tracked, step,
                   captureVars, lastRead, cycleVars, interrupted, cleaned,
                   resizeVars, clockVars,
                   detectVars>>

\* The first cycle has returned: run() enters its scheduler loop.
EnterMainLoop ==
    /\ run_pc = "first"
    /\ pc = "idle"
    /\ outcome # "none"
    /\ run_pc' = "loop"
    /\ UNCHANGED <<pc, cap, ctrlVars, scanVars, ticks, ret, opened, releases,
                   tracked, step, captureVars, lastRead, cycleVars, selftest,
                   interrupted, cleaned, resizeVars, clockVars,
                   detectVars>>

\* The control locations inside the try/finally of scan_and_track or
\* capture_images
InTry == pc \in {"scan_row", "scan_cell", "track", "cap_loop"}

\* The "except KeyboardInterrupt" of run() encloses the scheduler loop only.
InterruptCaught(rp) == rp = "loop"

\* KeyboardInterrupt: the finally block of the tracker call in progress
\* runs; "except Exception" does not catch it; run() catches it in its
\* scheduler loop and calls cleanup (camera closed, reset_position, an
\* exception of which is logged); elsewhere main() catches it and exits.
Interrupt ==
    /\ run_pc \in {"test", "first", "loop"}
    /\ interrupted' = TRUE
    /\ pc' = "exited"
    /\ run_pc' = "exited"
    /\ LET afterFinally == IF InTry THEN close_camera(cap) ELSE cap
           finallyCalls == IF InTry THEN release_calls(cap) ELSE 0
       IN  IF InterruptCaught(run_pc)
           THEN \E fault \in ServoFaults :
                LET c == reset_position(Ctrl, fault)
                IN  /\ cap' = close_camera(afterFinally)
                    /\ releases' = releases + finallyCalls
                                   + release_calls(afterFinally)
                    /\ SetCtrl(c)
                    /\ resetFailed' = c.raised
                    /\ cleaned' = TRUE
           ELSE /\ cap' = afterFinally
                /\ releases' = releases + finallyCalls
                /\ UNCHANGED <<ctrlVars, resetFailed, cleaned>>
    /\ UNCHANGED <<scanVars, ticks, ret, opened, tracked, step, captureVars,
                   lastRead, captureCalls, uploadCalls, success, outcome,
                   uploadArg, selftest, resizeVars, clockVars,
                   detectVars>>

\* A constructed PetMonitoringSystem whose run() has just been called.
InitRun ==
    /\ pc = "startup"
    /\ cap = "None"
    /\ pan_angle = Deg(90)
    /\ tilt_angle = Deg(90)
    /\ pan_servo = Deg(90)
    /\ tilt_servo = Deg(90)
    /\ row = 1
    /\ col = 1
    /\ ticks = 0
    /\ i = 0
    /\ file_paths = <<>>
    /\ written = {}
    /\ ret = FALSE
    /\ opened = FALSE
    /\ releases = 0
    /\ visited = <<>>
    /\ hitAt = {}
    /\ tracked = FALSE
    /\ step = NoStep
    /\ readFails = 0
    /\ lastRead = "none"
    /\ captureCalls = 0
    /\ uploadCalls = 0
    /\ success = FALSE
    /\ outcome = "none"
    /\ resetFailed = FALSE
    /\ uploadArg = None
    /\ scanFailed = FALSE
    /\ run_pc = "test"
    /\ selftest = NotTested
    /\ interrupted = FALSE
    /\ cleaned = FALSE
    /\ ResizeIdle
    /\ ClockIdle
    /\ DetectIdle

NextRun ==
    \/ TestSystem
    \/ EnterMainLoop
    \/ Interrupt
    \/ Next

SpecRun == InitRun /\ [][NextRun]_vars

----------------------------------------------------------------------------
(* The resize target of capture_images, computed for one frame.            *)

\* Largest small frame dimension and largest small long_edge drawn
MaxDim == 4
MaxEdge == 3

FrameDims == (1..MaxDim) \cup {1080, 1920}
LongEdges == (1..MaxEdge) \cup {image_long_edge}

\* int(a / b) for b > 0: the quotient truncated toward zero
int_div(a, b) == IF a >= 0 THEN a \div b ELSE -((-a) \div b)

\* A branch test that takes portrait frames for landscape ones
Landscape_inverted(width, height) == width < height

\* "if width > height"
Landscape(width, height) == width > height

\* (new_width, new_height) for a frame of shape (height, width)
resize_target(shape, edge) ==
    LET height == shape[1]
        width == shape[2]
    IN  IF Landscape(width, height)
        THEN <<edge, int_div(height * edge, width)>>
        ELSE <<int_div(width * edge, height), edge>>

\* A frame of some shape has been read and is to be resized.
InitResize ==
    /\ pc = "resize"
    /\ frame_shape \in FrameDims \X FrameDims
    /\ long_edge \in LongEdges
    /\ new_size = None
    /\ ClockIdle
    /\ DetectIdle
    /\ cap = "opened"
    /\ pan_angle = Deg(90)
    /\ tilt_angle = Deg(90)
    /\ pan_servo = Deg(90)
    /\ tilt_servo = Deg(90)
    /\ step = NoStep
    /\ row = 1
    /\ col = 1
    /\ ticks = 0
    /\ i = 0
    /\ file_paths = <<>>
    /\ written = {}
    /\ ret = FALSE
    /\ opened = TRUE
    /\ releases = 0
    /\ visited = <<>>
    /\ hitAt = {}
    /\ tracked = FALSE
    /\ readFails = 0
    /\ lastRead = "ok"
    /\ captureCalls = 1
    /\ uploadCalls = 0
    /\ success = FALSE
    /\ outcome = "none"
    /\ resetFailed = FALSE
    /\ uploadArg = None
    /\ scanFailed = FALSE
    /\ run_pc = "loop"
    /\ selftest = [NotTested EXCEPT !.result = "passed", !.camera = "ok"]
    /\ interrupted = FALSE
    /\ cleaned = FALSE

\* The size computation of one capture iteration
Resize ==
    /\ pc = "resize"
    /\ new_size' = resize_target(frame_shape, long_edge)
    /\ pc' = "resized"
    /\ UNCHANGED <<cap, ctrlVars, scanVars, ticks, ret, opened, releases,
                   tracked, step, captureVars, lastRead, cycleVars, runVars,
                   clockVars, detectVars, frame_shape, long_edge>>

NextResize == Resize

SpecResize == InitResize /\ [][NextResize]_vars

----------------------------------------------------------------------------
(* The tracking loop of scan_and_track against the clock.  Time is counted
   in units of 1 / (tracking_fps * TimeUnitsPerFrame) seconds and never
   runs backwards; time.sleep never returns early.                         *)

\* Clock units in one frame interval
TimeUnitsPerFrame == 2

\* Most units that pass between the loop condition and loop_start, in the
\* body of one iteration, and in a sleep beyond the time asked for
MaxLag == 1
MaxWork == 3
MaxOversleep == 1

\* "frame_delay = 1.0 / tracking_fps"
frame_delay == TimeUnitsPerFrame

\* tracking_duration in clock units
duration_units == tracking_duration * tracking_fps * TimeUnitsPerFrame

\* A loop that never sleeps
SleepTime_none(elapsed) == 0

\* "if elapsed < frame_delay: time.sleep(frame_delay - elapsed)"
SleepTime(elapsed) ==
    IF elapsed < frame_delay THEN frame_delay - elapsed ELSE 0

\* The scan has just found a pet; start_time is taken.
InitClock ==
    /\ pc = "track_cond"
    /\ now = 0
    /\ start_time = 0
    /\ loop_start = 0
    /\ prev_start = -1
    /\ ResizeIdle
    /\ DetectIdle
    /\ cap = "opened"
    /\ pan_angle = Deg(90)
    /\ tilt_angle = Deg(90)
    /\ pan_servo = Deg(90)
    /\ tilt_servo = Deg(90)
    /\ step = NoStep
    /\ row = 1
    /\ col = 1
    /\ ticks = 0
    /\ i = 0
    /\ file_paths = <<>>
    /\ written = {}
    /\ ret = FALSE
    /\ opened = TRUE
    /\ releases = 0
    /\ visited = <<<<1, 1>>>>
    /\ hitAt = {<<1, 1>>}
    /\ tracked = TRUE
    /\ readFails = 0
    /\ lastRead = "ok"
    /\ captureCalls = 0
    /\ uploadCalls = 0
    /\ success = FALSE
    /\ outcome = "none"
    /\ resetFailed = FALSE
    /\ uploadArg = None
    /\ scanFailed = FALSE
    /\ run_pc = "loop"
    /\ selftest = [NotTested EXCEPT !.result = "passed", !.camera = "ok"]
    /\ interrupted = FALSE
    /\ cleaned = FALSE

\* The while condition holds and loop_start is taken.
TickStart ==
    /\ pc = "track_cond"
    /\ now - start_time < duration_units
    /\ \E lag \in 0..MaxLag :
        /\ now' = now + lag
        /\ loop_start' = now + lag
    /\ prev_start' = loop_start
    /\ ticks' = ticks + 1
    /\ pc' = "track_body"
    /\ UNCHANGED <<cap, ctrlVars, scanVars, ret, opened, releases, tracked,
                   step, captureVars, lastRead, cycleVars, runVars,
                   resizeVars, detectVars, start_time>>

\* The body of one iteration: a failed read breaks; otherwise the work is
\* done, elapsed is measured and the remainder of the frame is slept.
TickBody ==
    /\ pc = "track_body"
    /\ \E work \in 0..MaxWork, over \in 0..MaxOversleep, read_ok \in BOOLEAN :
        IF ~read_ok
        THEN /\ now' = now + work
             /\ lastRead' = "fail"
             /\ pc' = "track_done"
        ELSE LET elapsed == now + work - loop_start
                 sleep == SleepTime(elapsed)
             IN  /\ now' = now + work + sleep
                            + (IF sleep > 0 THEN over ELSE 0)
                 /\ lastRead' = "ok"
                 /\ pc' = "track_cond"
    /\ UNCHANGED <<cap, ctrlVars, scanVars, ticks, ret, opened, releases,
                   tracked, step, captureVars, cycleVars, runVars,
                   resizeVars, detectVars, start_time, loop_start,
                   prev_start>>

\* The while condition fails.
TrackEnd ==
    /\ pc = "track_cond"
    /\ ~(now - start_time < duration_units)
    /\ pc' = "track_done"
    /\ UNCHANGED <<cap, ctrlVars, scanVars, ticks, ret, opened, releases,
                   tracked, step, captureVars, lastRead, cycleVars, runVars,
                   resizeVars, clockVars,
                   detectVars>>

NextClock == TickStart \/ TickBody \/ TrackEnd

SpecClock == InitClock /\ [][NextClock]_vars

----------------------------------------------------------------------------
(* CameraTracker._detect_pet on the detections of one frame.  A detection
   is [cls, conf, box] with conf in percent.                               *)

\* Longest detection sequence drawn
MaxDets == 3

\* "self.target_classes = [15, 16]"
target_classes == {15, 16}

\* Class ids, confidences and boxes the detector may report
DetClasses == target_classes \cup {0}
DetConfs == {0, 50, 90}
DetBoxes == {<<0, 0, 20, 20>>, <<620, 460, 640, 480>>}

Detection == [cls : DetClasses, conf : DetConfs, box : DetBoxes]

DetectionSeqs == UNION {[1..n -> Detection] : n \in 0..MaxDets}

\* The loop over the boxes from position k on, with the best so far
RECURSIVE detect_loop(_, _, _, _)
detect_loop(dets, k, best_conf, best) ==
    IF k > Len(dets) THEN best
    ELSE IF dets[k].cls \in target_classes /\ dets[k].conf > best_conf
    THEN detect_loop(dets, k + 1, dets[k].conf, dets[k].box)
    ELSE detect_loop(dets, k + 1, best_conf, best)

\* _detect_pet: best_box = None, best_conf = 0.0, then the loop
detect_pet(dets) == detect_loop(dets, 1, 0, None)

\* The detector has produced the detections of one frame.
InitDetect ==
    /\ pc = "detect"
    /\ detections \in DetectionSeqs
    /\ best_box = None
    /\ ResizeIdle
    /\ ClockIdle
    /\ cap = "opened"
    /\ pan_angle = Deg(90)
    /\ tilt_angle = Deg(90)
    /\ pan_servo = Deg(90)
    /\ tilt_servo = Deg(90)
    /\ step = NoStep
    /\ row = 1
    /\ col = 1
    /\ ticks = 0
    /\ i = 0
    /\ file_paths = <<>>
    /\ written = {}
    /\ ret = FALSE
    /\ opened = TRUE
    /\ releases = 0
    /\ visited = <<>>
    /\ hitAt = {}
    /\ tracked = FALSE
    /\ readFails = 0
    /\ lastRead = "ok"
    /\ captureCalls = 0
    /\ uploadCalls = 0
    /\ success = FALSE
    /\ outcome = "none"
    /\ resetFailed = FALSE
    /\ uploadArg = None
    /\ scanFailed = FALSE
    /\ run_pc = "loop"
    /\ selftest = [NotTested EXCEPT !.result = "passed", !.camera = "ok"]
    /\ interrupted = FALSE
    /\ cleaned = FALSE

\* One call of _detect_pet
DetectPet ==
    /\ pc = "detect"
    /\ best_box' = detect_pet(detections)
    /\ pc' = "detect_returned"
    /\ UNCHANGED <<cap, ctrlVars, scanVars, ticks, ret, opened, releases,
                   tracked, step, captureVars, lastRead, cycleVars, runVars,
                   resizeVars, clockVars, detections>>

NextDetect == DetectPet

SpecDetect == InitDetect /\ [][NextDetect]_vars

----------------------------------------------------------------------------
(* Properties *)

\* scan_and_track or capture_images has returned or raised
SatEnded == pc \in {"sat_returned", "sat_raised"}
CapEnded == pc \in {"cap_returned", "cap_raised"}

\* C1: whenever capture_images has returned or raised after opening the
\* camera, the camera handle is not open and was released exactly once.
C1_CaptureReleasesCamera ==
    (CapEnded /\ opened) => (cap # "opened" /\ releases = 1)

\* C2: whenever scan_and_track has returned or raised, the camera handle is
\* not open, and it was released exactly once if the call had opened it
\* (and never otherwise).
C2_ScanAndTrackReleasesCamera ==
    SatEnded => (cap # "opened" /\ releases = (IF opened THEN 1 ELSE 0))

\* C2 witness: scan_and_track raised during the tracking phase (detector or
\* servo write), after a scan that found a pet.
C2_Witness ==
    pc = "sat_raised" /\ opened /\ tracked /\ ticks > 0 /\ releases = 1

\* C3: when a monitoring cycle has ended and no reset_position of the cycle
\* raised, the controller is at pan = 90, tilt = 90.
C3_CycleEndsCentred ==
    (pc = "idle" /\ outcome # "none" /\ ~resetFailed)
        => (pan_angle = Deg(90) /\ tilt_angle = Deg(90))

\* C4: in every reachable state pan_angle and tilt_angle (and the angles
\* written to the servos) lie in [0, 180].
C4_AnglesInRange ==
    /\ pan_angle \in Deg(0)..Deg(180)
    /\ tilt_angle \in Deg(0)..Deg(180)
    /\ pan_servo \in Deg(0)..Deg(180)
    /\ tilt_servo \in Deg(0)..Deg(180)

\* C4 witness: a tracking step with a large positive error_x, taken at the
\* pan lower bound (0 - 6.2 degrees), ended clamped at 0.
C4_Witness ==
    /\ step.kind = "step"
    /\ step.ex2 > 2 * deadband
    /\ "pan" \in step.wrote
    /\ pan_angle = Deg(0)
    /\ pan_servo = Deg(0)

\* The scan grid in tilt-major, pan-minor order
Raster ==
    [k \in 1..(scan_steps_tilt * scan_steps_pan) |->
        <<((k - 1) \div scan_steps_pan) + 1, ((k - 1) % scan_steps_pan) + 1>>]

\* C5: the cells visited by the scan are always a prefix of the raster
\* order; no cell is visited after a cell with a detection; and when the
\* tracking phase starts, the last visited cell is the one with the
\* detection and the servos stand at that cell.
C5_ScanStopsAtFirstHit ==
    /\ Len(visited) <= Len(Raster)
    /\ \A k \in 1..Len(visited) : visited[k] = Raster[k]
    /\ \A k \in 1..(Len(visited) - 1) : visited[k] \notin hitAt
    /\ tracked =>
        /\ visited # <<>>
        /\ hitAt = {visited[Len(visited)]}
    /\ (pc = "track" /\ ticks = 0) =>
        /\ tilt_servo = tilt_grid[visited[Len(visited)][1]]
        /\ pan_servo = pan_grid[visited[Len(visited)][2]]

\* C5 witness: tracking starts after a hit in the interior of the grid
\* (third row, fourth column).
C5_Witness ==
    /\ pc = "track"
    /\ ticks = 0
    /\ hitAt = {<<3, 4>>}
    /\ Len(visited) = 2 * scan_steps_pan + 4

\* C6: while no scan cell has yielded a detection, the tracking phase is
\* not entered, capture_images and upload_files are not called in the
\* cycle, and a scan_and_track that returns returns False.
C6_NoDetectionNoCapture ==
    (hitAt = {}) =>
        /\ ~tracked
        /\ pc \notin {"track", "cap_loop", "cap_returned", "cap_raised",
                      "uploaded"}
        /\ captureCalls = 0
        /\ uploadCalls = 0
        /\ (pc = "sat_returned" => ~ret)

\* C6 witness: a cycle ended after a scan that visited the whole grid
\* without a detection.
C6_Witness ==
    /\ pc = "idle"
    /\ outcome = "no_pet"
    /\ hitAt = {}
    /\ Len(visited) = scan_steps_tilt * scan_steps_pan

\* C7: a proportional step of a tracking tick leaves an axis whose
\* |error| <= deadband unchanged and does not write its servo, whatever the
\* other axis's error.
C7_DeadbandFrame ==
    [][(ticks' = ticks + 1 /\ step'.kind = "step") =>
        /\ (Abs(step'.ex2) <= 2 * deadband) =>
            /\ pan_angle' = pan_angle
            /\ pan_servo' = pan_servo
            /\ "pan" \notin step'.wrote
        /\ (Abs(step'.ey2) <= 2 * deadband) =>
            /\ tilt_angle' = tilt_angle
            /\ tilt_servo' = tilt_servo
            /\ "tilt" \notin step'.wrote]_vars

\* C7 witness: a step with error_x exactly at the deadband and error_y far
\* beyond it moved the tilt axis only.
C7_Witness ==
    /\ step.kind = "step"
    /\ step.ex2 = 2 * deadband
    /\ Abs(step.ey2) > 2 * deadband
    /\ step.wrote = {"tilt"}

\* C8: under a constant error beyond the deadband the axis never moves
\* against the expected direction, and it ends at the clamp bound and
\* stays there: error_x > 0 ends at pan 0, error_x < 0 at pan 180,
\* error_y > 0 at tilt 180, error_y < 0 at tilt 0.
C8_ConstantErrorConverges ==
    /\ [][/\ (step.ex2 > 2 * deadband) => (pan_angle' <= pan_angle)
          /\ (step.ex2 < -(2 * deadband)) => (pan_angle' >= pan_angle)
          /\ (step.ey2 > 2 * deadband) => (tilt_angle' >= tilt_angle)
          /\ (step.ey2 < -(2 * deadband)) => (tilt_angle' <= tilt_angle)]_vars
    /\ <>[](/\ (step.ex2 > 2 * deadband) => (pan_angle = Deg(0))
            /\ (step.ex2 < -(2 * deadband)) => (pan_angle = Deg(180))
            /\ (step.ey2 > 2 * deadband) => (tilt_angle = Deg(180))
            /\ (step.ey2 < -(2 * deadband)) => (tilt_angle = Deg(0)))

\* C8 witness: under error_x > 0 and error_y > 0 just beyond the deadband
\* the controller has arrived at pan 0, tilt 180 (no initial position has
\* tilt 180).
C8_Witness ==
    /\ pc = "ctrl"
    /\ step.ex2 = 22
    /\ step.ey2 = 22
    /\ pan_angle = Deg(0)
    /\ tilt_angle = Deg(180)
    /\ step.wrote = {"pan", "tilt"}

\* s is strictly increasing
StrictlyIncreasing(s) == \A j, k \in 1..Len(s) : j < k => s[j] < s[k]

\* C9: capture_images never raises out of an iteration whose frame read
\* failed, and when it returns, file_paths holds one path per successfully
\* read frame, in strictly increasing frame order.
C9_CaptureSkipsFailedReads ==
    /\ (pc = "cap_raised") => (lastRead # "fail")
    /\ (pc = "cap_returned") =>
        /\ Len(file_paths) = capture_count - readFails
        /\ StrictlyIncreasing(file_paths)

\* C9 witness: count = 3 with only the second read failing returned the
\* paths of frames 1 and 3.
C9_Witness ==
    /\ pc = "cap_returned"
    /\ readFails = 1
    /\ file_paths = <<1, 3>>

\* C10: every path capture_images returns is of a file that was written.
C10_ReturnedPathsWritten ==
    (pc = "cap_returned") =>
        \A k \in 1..Len(file_paths) : file_paths[k] \in written

\* C11: once the self-test has passed, a delivered interrupt leads to
\* cleanup: the camera is released and, unless the reset's servo write
\* raises, pan and tilt are back at 90.
C11_InterruptRunsCleanup ==
    (interrupted /\ selftest.result = "passed") =>
        /\ cleaned
        /\ cap # "opened"
        /\ ~resetFailed =>
            /\ pan_angle = Deg(90)
            /\ tilt_angle = Deg(90)
            /\ pan_servo = Deg(90)
            /\ tilt_servo = Deg(90)

\* C12: the except clause of run_monitoring_cycle ends the cycle for every
\* exception: the cycle is over (nothing escapes it), pan_angle and
\* tilt_angle were reset to 90 (the servos too unless the reset raised),
\* and the next scheduled cycle can start.
C12_CycleAbsorbsExceptions ==
    (outcome = "exception") =>
        /\ pc = "idle"
        /\ pan_angle = Deg(90)
        /\ tilt_angle = Deg(90)
        /\ ~resetFailed => (pan_servo = Deg(90) /\ tilt_servo = Deg(90))
        /\ ENABLED ScanAndTrackOpen

\* C12 witness: a cycle whose capture raised ended in the except clause
\* with the re-centring itself failing, the pan servo left off centre.
C12_Witness ==
    /\ pc = "idle"
    /\ outcome = "exception"
    /\ captureCalls = 1
    /\ resetFailed
    /\ pan_servo # Deg(90)

\* C15: if any part of the self-test fails (Slack connection, camera open
\* or frame read, servo write of the reset), the process has exited and no
\* monitoring cycle was started and the scheduler loop not entered.
C15_SelfTestFailureExits ==
    (\/ ~selftest.slack
     \/ selftest.camera \in {"open_fail", "read_fail", "read_raise"}
     \/ selftest.servo # "none") =>
        /\ pc = "exited"
        /\ run_pc = "exited"
        /\ outcome = "none"
        /\ visited = <<>>
        /\ ~opened

\* C15 witness: the process exited after Slack and camera passed and the
\* tilt servo write of the reset raised.
C15_Witness ==
    /\ pc = "exited"
    /\ ~interrupted
    /\ selftest.slack
    /\ selftest.camera = "ok"
    /\ selftest.servo = "tilt"

\* capture_images of this cycle has returned its list
CaptureReturned ==
    captureCalls = 1 /\ i >= capture_count /\ pc \notin {"cap_loop", "cap_raised"}

\* C13: upload_files is called at most once per cycle; a call was made
\* with exactly the list capture_images returned; and a cycle that has
\* ended made one call if capture_images returned a non-empty list and none
\* otherwise, whether or not the upload succeeded.
C13_UploadOncePerBatch ==
    /\ uploadCalls \in {0, 1}
    /\ (uploadCalls = 1) =>
        /\ CaptureReturned
        /\ file_paths # <<>>
        /\ uploadArg = file_paths
    /\ (uploadCalls = 0) => (uploadArg = None)
    /\ (pc = "cap_returned") => (uploadCalls = 0)
    /\ (pc = "idle" /\ outcome # "none") =>
        (uploadCalls = IF CaptureReturned /\ file_paths # <<>> THEN 1 ELSE 0)

\* C13 witness: a cycle ended after one successful upload of all three
\* captured files.
C13_Witness ==
    /\ pc = "idle"
    /\ outcome = "upload_ok"
    /\ uploadCalls = 1
    /\ uploadArg = <<1, 2, 3>>

\* C14: a cycle that ends after a failed upload has pan_angle and
\* tilt_angle at 90 (the servos too unless the reset raised); and from the
\* return of capture_images to the end of the cycle no file on disk is
\* removed and, once the upload has failed, upload_files is not called
\* again.
C14_UploadFailureKeepsFiles ==
    /\ []((pc = "idle" /\ uploadCalls = 1 /\ ~success) =>
            /\ pan_angle = Deg(90)
            /\ tilt_angle = Deg(90)
            /\ ~resetFailed => (pan_servo = Deg(90) /\ tilt_servo = Deg(90)))
    /\ [][/\ (pc \in {"cap_returned", "uploaded", "reset_raised"}) =>
                (written' = written)
          /\ (uploadCalls = 1 /\ ~success /\ pc # "idle") =>
                (uploadCalls' = uploadCalls)]_vars

\* C14 witness: a cycle ended after the Slack call failed for three files
\* that are all on disk, the controller re-centred.
C14_Witness ==
    /\ pc = "idle"
    /\ outcome = "upload_failed"
    /\ file_paths = <<1, 2, 3>>
    /\ written = {1, 2, 3}
    /\ pan_servo = Deg(90)
    /\ tilt_servo = Deg(90)

\* C16: a scan_and_track that returns after the scan found a detection
\* returns True, however its tracking ticks went.
C16_TrackedReturnsTrue ==
    (pc = "sat_returned" /\ hitAt # {}) => (tracked /\ ret)

\* C16 witness: the frame read of the very first tracking tick failed and
\* scan_and_track returned True.
C16_Witness ==
    /\ pc = "sat_returned"
    /\ tracked
    /\ ticks = 1
    /\ lastRead = "fail"
    /\ ret

\* C18: a scan iteration whose frame read fails records no detection, does
\* not start tracking, keeps the camera open and leaves the scan at the
\* next cell in raster order (the next column, or the next row after the
\* last column).
C18_ScanSkipsFailedRead ==
    [][(pc = "scan_cell" /\ lastRead' = "fail") =>
        /\ hitAt' = hitAt
        /\ ~tracked'
        /\ cap' = cap
        /\ visited' = Append(visited, <<row, col>>)
        /\ IF col < scan_steps_pan
           THEN pc' = "scan_cell" /\ row' = row /\ col' = col + 1
           ELSE pc' = "scan_row" /\ row' = row + 1]_vars

\* C18 witness: tracking starts on a detection at the third cell after an
\* earlier frame read of the scan had failed.
C18_Witness ==
    /\ pc = "track"
    /\ ticks = 0
    /\ scanFailed
    /\ hitAt = {<<1, 3>>}

\* The scan loops' position as a number that every iteration increases
ScanProgress ==
    (row - 1) * (scan_steps_pan + 1) + (IF pc = "scan_cell" THEN col ELSE 0)

Scanning == pc \in {"scan_row", "scan_cell"}

\* C19: the scan visits (and reads a frame at) at most scan_steps_pan *
\* scan_steps_tilt cells; every scan iteration advances a bounded loop
\* position, so the scan ends; it ends in tracking with a detection, in a
\* return of False with no detection and every cell visited, or in an
\* exception.
C19_ScanTerminates ==
    /\ [](/\ Len(visited) <= scan_steps_pan * scan_steps_tilt
          /\ Scanning =>
                ScanProgress \in 0..(scan_steps_tilt * (scan_steps_pan + 1))
          /\ (pc = "track") => (hitAt # {})
          /\ (pc = "sat_returned" /\ ~ret) =>
                /\ hitAt = {}
                /\ Len(visited) = scan_steps_pan * scan_steps_tilt)
    /\ [][Scanning =>
            IF Scanning' THEN ScanProgress' > ScanProgress
            ELSE pc' \in {"track", "sat_returned", "sat_raised", "exited"}]_vars

\* C19 witness: the scan returned False after visiting all cells, some of
\* whose frame reads failed.
C19_Witness ==
    /\ pc = "sat_returned"
    /\ ~ret
    /\ scanFailed
    /\ Len(visited) = scan_steps_pan * scan_steps_tilt

\* C17: the resize target of a frame has long_edge as its larger dimension,
\* on the side of the frame's longer dimension, and
\* floor(shortDim * long_edge / longDim) as the other, for landscape,
\* portrait and square frames.
C17_ResizeTarget ==
    (new_size # None) =>
        LET height == frame_shape[1]
            width == frame_shape[2]
            new_width == new_size[1]
            new_height == new_size[2]
            short == (Min(width, height) * long_edge) \div Max(width, height)
        IN  /\ Max(new_width, new_height) = long_edge
            /\ Min(new_width, new_height) = short
            /\ (width > height) => (new_width = long_edge)
            /\ (height > width) => (new_height = long_edge)
            /\ (width = height) => (new_width = new_height)

\* C17 witness: a 1920x1080 frame with long_edge 800 got the target 800x450.
C17_Witness ==
    /\ pc = "resized"
    /\ frame_shape = <<1080, 1920>>
    /\ long_edge = 800
    /\ new_size = <<800, 450>>

\* C20: consecutive tracking ticks start at least frame_delay apart, a tick
\* starts only while less than tracking_duration has elapsed since
\* start_time, and the loop starts at most tracking_duration * tracking_fps
\* ticks.
C20_TicksNotFasterThanNominal ==
    /\ [](/\ (ticks >= 2) => (loop_start - prev_start >= frame_delay)
          /\ ticks <= tracking_duration * tracking_fps)
    /\ [][(ticks' = ticks + 1) =>
            /\ now - start_time < duration_units
            /\ (ticks >= 1) => (now - loop_start >= frame_delay)]_vars

\* C20 witness: the loop ended by the elapsed duration after the full
\* tracking_duration * tracking_fps ticks, the last two exactly frame_delay
\* apart.
C20_Witness ==
    /\ pc = "track_done"
    /\ lastRead = "ok"
    /\ ticks = tracking_duration * tracking_fps
    /\ loop_start - prev_start = frame_delay

\* C21: a tracking tick whose frame has no target detection leaves
\* pan_angle, tilt_angle and both servos as they were and writes no servo;
\* a tracking tick that changes the position is one with a detection.
C21_NoDetectionHolds ==
    [][(ticks' = ticks + 1) =>
        /\ (step'.kind = "hold") =>
              (ctrlVars' = ctrlVars /\ step'.wrote = {})
        /\ (ctrlVars' # ctrlVars) => (step'.kind = "step")]_vars

\* C21 witness: after a tick that moved the pan servo off the scan grid, a
\* tick without a detection has run and tracking goes on.
C21_Witness ==
    /\ pc = "track"
    /\ ticks = 2
    /\ step.kind = "hold"
    /\ \A k \in 1..scan_steps_pan : pan_servo # pan_grid[k]

\* Positions of the detections of an allowlisted class
Allowed(dets) == {k \in 1..Len(dets) : dets[k].cls \in {15, 16}}

\* The first position holding the highest confidence among positions ks
FirstBest(dets, ks) ==
    CHOOSE k \in ks :
        \A j \in ks : \/ dets[j].conf < dets[k].conf
                      \/ (dets[j].conf = dets[k].conf /\ j >= k)

\* C22: _detect_pet returns the box of the highest-confidence detection of
\* an allowlisted class, the first one on ties, and returns None exactly
\* when no detection is of an allowlisted class, whatever the confidences.
C22_DetectorReturnsBest ==
    (pc = "detect_returned") =>
        IF Allowed(detections) = {} THEN best_box = None
        ELSE /\ best_box # None
             /\ best_box = detections[FirstBest(detections,
                                                Allowed(detections))].box

\* C23: after every CameraTracker operation, returned or raised, the
\* recorded pan_angle and tilt_angle equal the angles last written to the
\* pan and tilt servos.
C23_RecordedEqualsWritten ==
    /\ pan_angle = pan_servo
    /\ tilt_angle = tilt_servo

\* C24: in a cycle whose scan detected a pet, from the return of
\* scan_and_track until capture_images has returned and the cycle has gone
\* on to the upload, no step changes pan_angle, tilt_angle or the angle
\* written to either servo; the position changes again only after the
\* upload or in the exception handler.
C24_CaptureAtTrackedPosition ==
    [][(tracked /\ pc \in {"sat_returned", "cap_loop", "cap_returned"}) =>
        (ctrlVars' = ctrlVars)]_vars

\* C24 witness: capture_images returned all its stills with the pan servo
\* where a tracking step had left it, off the scan grid and off centre.
C24_Witness ==
    /\ pc = "cap_returned"
    /\ tracked
    /\ Len(file_paths) = capture_count
    /\ pan_angle = pan_servo
    /\ \A k \in 1..scan_steps_pan : pan_servo # pan_grid[k]

====
